---- MODULE Spec2Model ----
(***************************************************************************)
(* Model of src/lambda/src/healthcare_processor.py: the healthcare         *)
(* facility batch processor (load -> enrich -> expiry evaluation ->        *)
(* tiered notification).                                                   *)
(*                                                                         *)
(* Python dicts are functions from key strings to values; an absent key is *)
(* a key outside DOMAIN.  Time is counted in ticks, TicksPerDay ticks to a *)
(* day, so that datetime.now() carries a time of day while a parsed        *)
(* '%Y-%m-%d' date is always at midnight.  Day 0 is today.                 *)
(*                                                                         *)
(* Four specifications share the module:                                  *)
(*   Spec       lambda_handler from the loaded results on (lines 45-60),   *)
(*   SpecDates  the same steps over one facility and a dense date range,   *)
(*   SpecLoad   process_healthcare_data (lines 83-109),                    *)
(*   SpecEnrich enrich_facility_data (lines 141-162).                      *)
(***************************************************************************)
EXTENDS Integers, Sequences, FiniteSets, TLC

VARIABLES
    pc,                          \* position in the running function
    current_date,                \* datetime.now() of check_expiring_accreditations, in ticks
    results,                     \* lambda_handler: list returned by process_healthcare_data
    expiring_facilities,         \* lambda_handler: list returned by check_expiring_accreditations
    critical_facilities,         \* send_notifications: Critical bucket
    high_priority_facilities,    \* send_notifications: High bucket
    medium_priority_facilities,  \* send_notifications: Medium bucket
    attempts,                    \* per-tier notification attempts, in order, with their outcome
    sns_calls,                   \* calls of sns_client.publish, in order
    log_errors,                  \* logger.error lines, in order
    result,                      \* value returned by lambda_handler
    objects,                     \* the objects under the prefix in the bucket
    response,                    \* process_healthcare_data: response of list_objects_v2
    idx,                         \* process_healthcare_data: position of the loop of line 97
    processed_facilities,        \* process_healthcare_data: list built by the loop
    facility_data,               \* enrich_facility_data: the record as it was passed in
    processed_data               \* enrich_facility_data: the record returned

loadVars == <<objects, response, idx, processed_facilities>>

enrichVars == <<facility_data, processed_data>>

vars == <<pc, current_date, results, expiring_facilities, critical_facilities,
          high_priority_facilities, medium_priority_facilities, attempts,
          sns_calls, log_errors, result, loadVars, enrichVars>>

----------------------------------------------------------------------------
\* Bounds of the model.
TicksPerDay == 2
MaxFacilities == 2
MaxAccreds == 3
MaxObjects == 2
PastDays == 2
FutureDays == 2

\* Program constants.
WARNING_DAYS == 90
CRITICAL_DAYS == 30
HIGH_DAYS == 60

PREVIEW == 10

\* None, where a string is expected.
Null == "None"

----------------------------------------------------------------------------
\* Dict helpers.

\* d.get(k, default)
Get(d, k, default) == IF k \in DOMAIN d THEN d[k] ELSE default

\* d[k] = v
Put(d, k, v) == [x \in DOMAIN d \cup {k} |-> IF x = k THEN v ELSE d[x]]

----------------------------------------------------------------------------
\* valid_until strings.  A string is modelled by what strptime can make of
\* it: the text of a calendar date (day number `day`), some other non-empty
\* text, or the empty string.
DateStr(d) == [kind |-> "date", day |-> d]
BadStr == [kind |-> "text", day |-> 0]
EmptyStr == [kind |-> "empty", day |-> 0]
\* None, where a valid_until is expected.
NoneStr == [kind |-> "none", day |-> 0]

\* {}
EmptyDict == [x \in {} |-> Null]

\* Python truthiness of a valid_until value (line 185).
StrTruthy(s) == s.kind \notin {"none", "empty"}

\* datetime.strptime(s, '%Y-%m-%d'): midnight of the date, or ValueError.
Strptime(s) ==
    IF s.kind = "date" THEN [ok |-> TRUE, ticks |-> s.day * TicksPerDay]
    ELSE [ok |-> FALSE, ticks |-> 0]

\* timedelta(days = n)
Days(n) == n * TicksPerDay

\* timedelta.days: whole days, rounded towards minus infinity.
TimedeltaDays(t) == t \div TicksPerDay

----------------------------------------------------------------------------
\* check_expiring_accreditations

Priority_StrictCritical(days_to_expiry) ==
    IF days_to_expiry < CRITICAL_DAYS THEN "Critical"
    ELSE IF days_to_expiry <= HIGH_DAYS THEN "High"
    ELSE "Medium"

\* Lines 192-197.
Priority(days_to_expiry) ==
    IF days_to_expiry <= CRITICAL_DAYS THEN "Critical"
    ELSE IF days_to_expiry <= HIGH_DAYS THEN "High"
    ELSE "Medium"

WithinWarning_Strict(valid_until_date, now) == valid_until_date < now + Days(WARNING_DAYS)

\* Line 188.
WithinWarning(valid_until_date, now) == valid_until_date <= now + Days(WARNING_DAYS)

\* Lines 199-205.
ExpiringEntry(accreditation, now) ==
    LET valid_until_str == accreditation["valid_until"]
        valid_until_date == Strptime(valid_until_str).ticks
        days_to_expiry == TimedeltaDays(valid_until_date - now)
    IN  [accreditation_body |-> Get(accreditation, "accreditation_body", Null),
         accreditation_id |-> Get(accreditation, "accreditation_id", Null),
         valid_until |-> valid_until_str,
         days_to_expiry |-> days_to_expiry,
         priority |-> Priority(days_to_expiry)]

\* Lines 180-205, the inner loop over one facility's accreditations, from
\* accreditation i on, with the entries gathered so far.  error is set when
\* strptime raises.
RECURSIVE AccreditationLoop(_, _, _, _)
AccreditationLoop(accs, i, now, facility_expiring) ==
    IF i > Len(accs) THEN [error |-> FALSE, list |-> facility_expiring]
    ELSE LET accreditation == accs[i]
             valid_until_str == Get(accreditation, "valid_until", NoneStr)
         IN  IF ~StrTruthy(valid_until_str)
             THEN AccreditationLoop(accs, i + 1, now, facility_expiring)
             ELSE IF ~Strptime(valid_until_str).ok
             THEN [error |-> TRUE, list |-> facility_expiring]
             ELSE IF WithinWarning(Strptime(valid_until_str).ticks, now)
             THEN AccreditationLoop(accs, i + 1, now,
                      Append(facility_expiring, ExpiringEntry(accreditation, now)))
             ELSE AccreditationLoop(accs, i + 1, now, facility_expiring)

FacilityExpiring(facility, now) ==
    AccreditationLoop(Get(facility, "accreditations", <<>>), 1, now, <<>>)

\* Lines 207-213.
ExpiringFacility(facility, facility_expiring) ==
    [facility_id |-> Get(facility, "facility_id", Null),
     facility_name |-> Get(facility, "facility_name", Null),
     location |-> Get(facility, "location", EmptyDict),
     expiring_accreditations |-> facility_expiring]

\* Lines 179-213, the outer loop from facility i on.
RECURSIVE FacilityLoop(_, _, _, _)
FacilityLoop(facilities, i, now, acc) ==
    IF i > Len(facilities) THEN [error |-> FALSE, list |-> acc]
    ELSE LET r == FacilityExpiring(facilities[i], now)
         IN  IF r.error THEN [error |-> TRUE, list |-> acc]
             ELSE IF r.list # <<>>
             THEN FacilityLoop(facilities, i + 1, now,
                      Append(acc, ExpiringFacility(facilities[i], r.list)))
             ELSE FacilityLoop(facilities, i + 1, now, acc)

\* Lines 174-220: the list returned, and whether the except branch ran.
CheckExpiringAccreditations(facilities, now) ==
    LET r == FacilityLoop(facilities, 1, now, <<>>)
    IN  IF r.error THEN [error |-> TRUE, list |-> <<>>]
        ELSE [error |-> FALSE, list |-> r.list]

----------------------------------------------------------------------------
\* send_notifications and format_notification_message

\* Lines 236-242, for one facility: the facility once per accreditation whose
\* priority falls to `tier`.  The final else takes every priority that is
\* neither Critical nor High.
TierOf(accred) ==
    IF accred["priority"] = "Critical" THEN "Critical"
    ELSE IF accred["priority"] = "High" THEN "High"
    ELSE "Medium"

RECURSIVE GroupAccreds(_, _, _)
GroupAccreds(facility, i, tier) ==
    IF i > Len(facility["expiring_accreditations"]) THEN <<>>
    ELSE (IF TierOf(facility["expiring_accreditations"][i]) = tier
          THEN <<facility>> ELSE <<>>)
         \o GroupAccreds(facility, i + 1, tier)

\* Lines 231-242: the bucket of `tier` after the grouping loop.
RECURSIVE GroupLoop(_, _, _)
GroupLoop(expiring, i, tier) ==
    IF i > Len(expiring) THEN <<>>
    ELSE GroupAccreds(expiring[i], 1, tier) \o GroupLoop(expiring, i + 1, tier)

GroupByPriority(expiring, tier) == GroupLoop(expiring, 1, tier)

\* Lines 315-317: the lines of one facility, or a KeyError when an entry of
\* the tier carries no accreditation_type.
RECURSIVE AccredLines(_, _, _)
AccredLines(accreds, i, priority) ==
    IF i > Len(accreds) THEN [ok |-> TRUE, lines |-> <<>>]
    ELSE IF accreds[i]["priority"] # priority THEN AccredLines(accreds, i + 1, priority)
    ELSE IF "accreditation_type" \notin DOMAIN accreds[i] THEN [ok |-> FALSE, lines |-> <<>>]
    ELSE LET rest == AccredLines(accreds, i + 1, priority)
         IN  [ok |-> rest.ok,
              lines |-> <<[accreditation_type |-> accreds[i]["accreditation_type"],
                           days_to_expiry |-> accreds[i]["days_to_expiry"]]>> \o rest.lines]

\* Lines 311-319.
RECURSIVE FacilityBlocks(_, _, _)
FacilityBlocks(facilities, i, priority) ==
    IF i > Len(facilities) THEN [ok |-> TRUE, blocks |-> <<>>]
    ELSE LET facility == facilities[i]
             a == AccredLines(facility["expiring_accreditations"], 1, priority)
             rest == FacilityBlocks(facilities, i + 1, priority)
         IN  IF ~a.ok THEN [ok |-> FALSE, blocks |-> <<>>]
             ELSE [ok |-> rest.ok,
                   blocks |-> <<[facility_name |-> facility["facility_name"],
                                 city |-> Get(facility["location"], "city", "N/A"),
                                 state |-> Get(facility["location"], "state", "N/A"),
                                 lines |-> a.lines]>> \o rest.blocks]

\* Lines 303-323: the rendered message, or ok = FALSE when rendering raises.
FormatNotificationMessage(facilities, priority) ==
    LET b == FacilityBlocks(facilities, 1, priority)
    IN  [ok |-> b.ok, header |-> priority, blocks |-> IF b.ok THEN b.blocks ELSE <<>>]

----------------------------------------------------------------------------
\* Facility records handed to the handler's evaluation stage.

\* One accreditation of a source record; the valid_until key is left out
\* when v is None.
Accreditation(j, v) ==
    LET base == [accreditation_body |-> "JCI", accreditation_id |-> j,
                 accreditation_type |-> "Hospital"]
    IN  IF v = NoneStr THEN base ELSE Put(base, "valid_until", v)

\* One enriched facility record with the accreditations of valid_until
\* values vs (a sequence); a record without accreditations has no such key.
Facility(i, vs) ==
    LET base == [facility_id |-> i, facility_name |-> "Clinic " \o ToString(i),
                 location |-> [city |-> "Pune"]]
    IN  IF vs = <<>> THEN base
        ELSE Put(base, "accreditations", [j \in 1..Len(vs) |-> Accreditation(j, vs[j])])

\* The valid_until values of the batch specification: no key, the empty
\* string, a text that is no date, and dates on the tier and window bounds.
BatchDays == {CRITICAL_DAYS, HIGH_DAYS, WARNING_DAYS, WARNING_DAYS + 1}
BatchValues == {NoneStr, EmptyStr, BadStr} \cup {DateStr(d) : d \in BatchDays}

\* The number of accreditations of the first i facilities, where sizes[i] is
\* the number of accreditations of facility i.
RECURSIVE SizeSum(_, _)
SizeSum(sizes, i) == IF i = 0 THEN 0 ELSE sizes[i] + SizeSum(sizes, i - 1)

\* The facility list whose accreditations, read facility after facility,
\* carry the valid_until values of `flat`, facility i having sizes[i] of them.
FacilityList(flat, sizes) ==
    [i \in 1..Len(sizes) |->
        Facility(i, SubSeq(flat, SizeSum(sizes, i - 1) + 1, SizeSum(sizes, i)))]

\* list is a list of at most MaxFacilities facilities with at most
\* MaxAccreds accreditations in all, over the values of BatchValues.
BatchInput(list) ==
    \E n \in 0..MaxFacilities, total \in 0..MaxAccreds :
        \E flat \in [1..total -> BatchValues] :
            \E sizes \in {sz \in [1..n -> 0..total] : SizeSum(sz, n) = total} :
                list = FacilityList(flat, sizes)

\* list is one facility with two accreditations, of any two dates from
\* PastDays before today to FutureDays past the warning window.
DateRange == (0 - PastDays)..(WARNING_DAYS + FutureDays)
DateInput(list) ==
    \E d1 \in DateRange, d2 \in DateRange :
        list = FacilityList(<<DateStr(d1), DateStr(d2)>>, <<2>>)

----------------------------------------------------------------------------
\* lambda_handler, lines 45-60.

\* The variables of the handler's later stages, before they ran.
Untouched ==
    /\ expiring_facilities = <<>>
    /\ critical_facilities = <<>>
    /\ high_priority_facilities = <<>>
    /\ medium_priority_facilities = <<>>
    /\ attempts = <<>>
    /\ sns_calls = <<>>
    /\ log_errors = <<>>
    /\ result = EmptyDict

NoLoad ==
    /\ objects = <<>>
    /\ response = EmptyDict
    /\ idx = 0
    /\ processed_facilities = <<>>

NoEnrich ==
    /\ facility_data = EmptyDict
    /\ processed_data = EmptyDict

InitHandler ==
    /\ pc = "check"
    /\ current_date \in 0..(TicksPerDay - 1)
    /\ Untouched
    /\ NoLoad
    /\ NoEnrich

Init == BatchInput(results) /\ InitHandler

InitDates == DateInput(results) /\ InitHandler

\* Line 46 and the test of line 49.
CheckExpiring ==
    /\ pc = "check"
    /\ LET r == CheckExpiringAccreditations(results, current_date)
       IN  /\ expiring_facilities' = r.list
           /\ log_errors' = IF r.error
                            THEN Append(log_errors, "Error checking expiring accreditations")
                            ELSE log_errors
           /\ pc' = IF r.list # <<>> THEN "group" ELSE "respond"
    /\ UNCHANGED <<current_date, results, critical_facilities, high_priority_facilities,
                   medium_priority_facilities, attempts, sns_calls, result,
                   loadVars, enrichVars>>

\* send_notifications, lines 231-242.
Group ==
    /\ pc = "group"
    /\ critical_facilities' = GroupByPriority(expiring_facilities, "Critical")
    /\ high_priority_facilities' = GroupByPriority(expiring_facilities, "High")
    /\ medium_priority_facilities' = GroupByPriority(expiring_facilities, "Medium")
    /\ pc' = "Critical"
    /\ UNCHANGED <<current_date, results, expiring_facilities, attempts, sns_calls,
                   log_errors, result, loadVars, enrichVars>>

\* send_notifications, one of the three blocks of lines 245-264 with the
\* except of line 266, and send_sns_notification, lines 278-290.
NotifyTier(tier, bucket, subject, topic, next) ==
    /\ pc = tier
    /\ IF bucket = <<>>
       THEN /\ pc' = next
            /\ UNCHANGED <<attempts, sns_calls, log_errors>>
       ELSE LET message == FormatNotificationMessage(bucket, tier)
            IN  IF ~message.ok
                THEN /\ attempts' = Append(attempts, [tier |-> tier, outcome |-> "render_error"])
                     /\ log_errors' = Append(log_errors, "Error sending notifications")
                     /\ pc' = "respond"
                     /\ UNCHANGED sns_calls
                ELSE \E delivered \in BOOLEAN :
                     /\ sns_calls' = Append(sns_calls, [topic |-> topic, subject |-> subject,
                                                        message |-> message])
                     /\ attempts' = Append(attempts,
                            [tier |-> tier,
                             outcome |-> IF delivered THEN "published" ELSE "publish_error"])
                     /\ log_errors' = IF delivered THEN log_errors
                                      ELSE Append(log_errors, "Error sending SNS notification")
                     /\ pc' = next
    /\ UNCHANGED <<current_date, results, expiring_facilities, critical_facilities,
                   high_priority_facilities, medium_priority_facilities, result,
                   loadVars, enrichVars>>

NotifyCritical ==
    NotifyTier("Critical", critical_facilities,
               "Critical: Healthcare Accreditations Expiring Soon", "critical", "High")

NotifyHigh ==
    NotifyTier("High", high_priority_facilities,
               "High Priority: Healthcare Accreditations Expiring", "high", "Medium")

NotifyMedium ==
    NotifyTier("Medium", medium_priority_facilities,
               "Medium Priority: Healthcare Accreditations Expiring", "medium", "respond")

\* results[:10]
Preview(list) == SubSeq(list, 1, IF Len(list) < PREVIEW THEN Len(list) ELSE PREVIEW)

\* Lines 52-60.
Respond ==
    /\ pc = "respond"
    /\ result' = [statusCode |-> 200,
                  facilities_processed |-> Len(results),
                  expiring_accreditations_found |-> Len(expiring_facilities),
                  results |-> Preview(results)]
    /\ pc' = "done"
    /\ UNCHANGED <<current_date, results, expiring_facilities, critical_facilities,
                   high_priority_facilities, medium_priority_facilities, attempts,
                   sns_calls, log_errors, loadVars, enrichVars>>

Next == CheckExpiring \/ Group \/ NotifyCritical \/ NotifyHigh \/ NotifyMedium \/ Respond

Spec == Init /\ [][Next]_vars

SpecDates == InitDates /\ [][Next]_vars

----------------------------------------------------------------------------
\* JSON values of the loaded records.  A list or string is known by its
\* length, a number by its value; a dict is a function from its keys.
JList(n) == [tag |-> "list", n |-> n]
JStr(n) == [tag |-> "str", n |-> n]
JInt(n) == [tag |-> "int", n |-> n]
JFloat(num, den) == [tag |-> "float", n |-> num, d |-> den]
JsonNull == [tag |-> "null", n |-> 0]

IsDict(v) == "tag" \notin DOMAIN v

\* len(v) is defined.
HasLen(v) == IsDict(v) \/ v.tag \in {"list", "str"}

LenOf(v) == IF IsDict(v) THEN Cardinality(DOMAIN v) ELSE v.n

\* v / n is defined for an int n.
Divisible(v) == ~IsDict(v) /\ v.tag \in {"int", "float"}

\* Python truthiness (line 100).
Truthy(v) ==
    IF IsDict(v) THEN DOMAIN v # {}
    ELSE IF v.tag = "null" THEN FALSE
    ELSE v.n # 0

----------------------------------------------------------------------------
\* enrich_facility_data, lines 141-162.  The dict is updated in place, so
\* what the except branch returns holds every field set before the failing
\* line.  error tells whether the except branch ran.

\* Line 153.
EmployeesPerService(employee_count, service_count) ==
    IF service_count > 0 THEN JFloat(employee_count.n, service_count) ELSE JInt(0)

\* Lines 151-158, after the counts are set.
EnrichRatio(fd, now) ==
    LET employee_count == Get(fd, "employee_count", JInt(0))
        service_count == fd["total_services"].n
    IN  IF service_count > 0 /\ ~Divisible(employee_count)
        THEN [error |-> TRUE, value |-> fd]
        ELSE [error |-> FALSE,
              value |-> Put(Put(fd, "employees_per_service",
                                EmployeesPerService(employee_count, service_count)),
                            "processed_at", [tag |-> "timestamp", n |-> now])]

\* Lines 143-148: one count after the other, each stored as soon as it is
\* computed.
EnrichFacilityData(fd, now) ==
    IF ~IsDict(fd) THEN [error |-> TRUE, value |-> fd]
    ELSE IF ~HasLen(Get(fd, "services", JList(0))) THEN [error |-> TRUE, value |-> fd]
    ELSE LET fd1 == Put(fd, "total_services", JInt(LenOf(Get(fd, "services", JList(0)))))
         IN  IF ~HasLen(Get(fd1, "accreditations", JList(0)))
             THEN [error |-> TRUE, value |-> fd1]
             ELSE LET fd2 == Put(fd1, "total_accreditations",
                                 JInt(LenOf(Get(fd1, "accreditations", JList(0)))))
                  IN  IF ~HasLen(Get(fd2, "labs", JList(0)))
                      THEN [error |-> TRUE, value |-> fd2]
                      ELSE LET fd3 == Put(fd2, "total_labs",
                                          JInt(LenOf(Get(fd2, "labs", JList(0)))))
                               fd4 == Put(fd3, "active_accreditations",
                                          fd3["total_accreditations"])
                           IN  EnrichRatio(fd4, now)

\* The raw records the enricher is applied to: each field absent, well
\* typed, or of a type the enricher's arithmetic rejects.
FieldChoices(k) ==
    IF k = "services" THEN {JsonNull, JList(0), JList(2), JInt(5)}
    ELSE IF k = "accreditations" THEN {JList(1), JInt(5)}
    ELSE IF k = "labs" THEN {JList(1), JsonNull}
    ELSE {JInt(10), JStr(3), JsonNull}

RawFields == {"services", "accreditations", "labs", "employee_count"}

RawRecords ==
    UNION {[keys \cup {"facility_id"} ->
               UNION {FieldChoices(k) : k \in keys} \cup {JStr(4)}]
           : keys \in SUBSET RawFields}

EnrichInputs ==
    {fd \in RawRecords :
        /\ fd["facility_id"] = JStr(4)
        /\ \A k \in DOMAIN fd \ {"facility_id"} : fd[k] \in FieldChoices(k)}
    \cup {JList(1)}

InitEnrich ==
    /\ pc = "enrich"
    /\ facility_data \in EnrichInputs
    /\ processed_data = EmptyDict
    /\ results = <<>>
    /\ current_date \in 0..(TicksPerDay - 1)
    /\ Untouched
    /\ NoLoad

\* One call of enrich_facility_data.
Enrich ==
    /\ pc = "enrich"
    /\ LET r == EnrichFacilityData(facility_data, current_date)
       IN  /\ processed_data' = r.value
           /\ log_errors' = IF r.error
                            THEN Append(log_errors, "Error enriching facility data")
                            ELSE log_errors
    /\ pc' = "enriched"
    /\ UNCHANGED <<current_date, results, expiring_facilities, critical_facilities,
                   high_priority_facilities, medium_priority_facilities, attempts,
                   sns_calls, result, loadVars, facility_data>>

NextEnrich == Enrich

SpecEnrich == InitEnrich /\ [][NextEnrich]_vars

----------------------------------------------------------------------------
\* process_healthcare_data, lines 83-109, with load_facility_data, lines
\* 122-129, and the except of lambda_handler, lines 62-70.

\* load_facility_data: the parsed body, or {} when get_object or json.loads
\* raises.
LoadFacilityData(obj) ==
    IF obj.Body.kind = "json" THEN [error |-> FALSE, value |-> obj.Body.value]
    ELSE [error |-> TRUE, value |-> EmptyDict]

\* obj['Key'].endswith('.json')
EndsWithJson(key) == key.suffix = ".json"

LoopBody_NoEmptyTest(processed, obj, now) ==
    IF EndsWithJson(obj.Key)
    THEN Append(processed, EnrichFacilityData(LoadFacilityData(obj).value, now).value)
    ELSE processed

\* Lines 98-102: the list after one turn of the loop.
LoopBody(processed, obj, now) ==
    IF EndsWithJson(obj.Key) /\ Truthy(LoadFacilityData(obj).value)
    THEN Append(processed, EnrichFacilityData(LoadFacilityData(obj).value, now).value)
    ELSE processed

\* The logger.error lines of one turn of the loop.
LoopErrors(obj, now) ==
    IF ~EndsWithJson(obj.Key) THEN <<>>
    ELSE IF LoadFacilityData(obj).error THEN <<"Error loading facility data">>
    ELSE IF ~Truthy(LoadFacilityData(obj).value) THEN <<>>
    ELSE IF EnrichFacilityData(LoadFacilityData(obj).value, now).error
    THEN <<"Error enriching facility data">>
    ELSE <<>>

\* What a body parses to: a full record, a record whose services cannot be
\* counted, a record whose accreditations cannot be counted, {}, a JSON
\* list, JSON null.
ParsedValues ==
    {[facility_id |-> JStr(4), services |-> JList(2), employee_count |-> JInt(10)],
     [facility_id |-> JStr(4), services |-> JInt(5)],
     [facility_id |-> JStr(4), accreditations |-> JInt(5)],
     EmptyDict, JList(1), JsonNull}

Bodies ==
    {[kind |-> "fetch_error", value |-> EmptyDict],
     [kind |-> "bad_json", value |-> EmptyDict]}
    \cup {[kind |-> "json", value |-> v] : v \in ParsedValues}

\* list is a listing: at most MaxObjects objects under the prefix, numbered,
\* each a JSON file or some other key.
ObjectList(list) ==
    \E n \in 0..MaxObjects :
        \E sfx \in [1..n -> {".json", ".csv"}], body \in [1..n -> Bodies] :
            list = [i \in 1..n |-> [Key |-> [stem |-> i, suffix |-> sfx[i]],
                                    Body |-> body[i]]]

InitLoad ==
    /\ pc = "list"
    /\ ObjectList(objects)
    /\ response = EmptyDict
    /\ idx = 0
    /\ processed_facilities = <<>>
    /\ results = <<>>
    /\ current_date = 0
    /\ Untouched
    /\ NoEnrich

\* Lines 87-94: the listing raises, or holds no Contents, or holds the keys.
ListObjects ==
    /\ pc = "list"
    /\ \E ok \in BOOLEAN :
          IF ~ok
          THEN /\ pc' = "raised"
               /\ log_errors' = Append(log_errors, "Error processing healthcare data")
               /\ UNCHANGED <<response, idx, results>>
          ELSE IF objects = <<>>
          THEN /\ pc' = "returned"
               /\ results' = processed_facilities
               /\ UNCHANGED <<response, idx, log_errors>>
          ELSE /\ response' = [Contents |-> objects]
               /\ idx' = 1
               /\ pc' = "loop"
               /\ UNCHANGED <<results, log_errors>>
    /\ UNCHANGED <<current_date, expiring_facilities, critical_facilities,
                   high_priority_facilities, medium_priority_facilities, attempts,
                   sns_calls, result, objects, processed_facilities, enrichVars>>

\* Lines 97-102, one turn of the loop.
ProcessObject ==
    /\ pc = "loop"
    /\ idx <= Len(response["Contents"])
    /\ processed_facilities' = LoopBody(processed_facilities, response["Contents"][idx], idx)
    /\ log_errors' = log_errors \o LoopErrors(response["Contents"][idx], idx)
    /\ idx' = idx + 1
    /\ UNCHANGED <<pc, current_date, results, expiring_facilities, critical_facilities,
                   high_priority_facilities, medium_priority_facilities, attempts,
                   sns_calls, result, objects, response, enrichVars>>

\* Lines 104-105 and the assignment of line 43.
ReturnProcessed ==
    /\ pc = "loop"
    /\ idx > Len(response["Contents"])
    /\ results' = processed_facilities
    /\ pc' = "returned"
    /\ UNCHANGED <<current_date, expiring_facilities, critical_facilities,
                   high_priority_facilities, medium_priority_facilities, attempts,
                   sns_calls, log_errors, result, loadVars, enrichVars>>

\* Lines 62-70.
HandlerExcept ==
    /\ pc = "raised"
    /\ result' = [statusCode |-> 500]
    /\ log_errors' = Append(log_errors, "Error processing healthcare data")
    /\ pc' = "failed"
    /\ UNCHANGED <<current_date, results, expiring_facilities, critical_facilities,
                   high_priority_facilities, medium_priority_facilities, attempts,
                   sns_calls, loadVars, enrichVars>>

NextLoad == ListObjects \/ ProcessObject \/ ReturnProcessed \/ HandlerExcept

SpecLoad == InitLoad /\ [][NextLoad]_vars

----------------------------------------------------------------------------
\* Vocabulary of the properties, stated on the source records and on what
\* the handler produced, independently of the operators above.

AccreditationsOf(facility) ==
    IF "accreditations" \in DOMAIN facility THEN facility["accreditations"] ELSE <<>>

HasDate(accreditation) ==
    /\ "valid_until" \in DOMAIN accreditation
    /\ accreditation["valid_until"].kind = "date"

\* valid_until is present and is no YYYY-MM-DD date.
Malformed(accreditation) ==
    /\ "valid_until" \in DOMAIN accreditation
    /\ accreditation["valid_until"].kind = "text"

\* valid_until <= now + 90 days.
AtRisk(accreditation) ==
    /\ HasDate(accreditation)
    /\ accreditation["valid_until"].day * TicksPerDay
           <= current_date + WARNING_DAYS * TicksPerDay

WellFormedFacility(facility) ==
    \A j \in 1..Len(AccreditationsOf(facility)) :
        LET a == AccreditationsOf(facility)[j]
        IN  "valid_until" \in DOMAIN a => HasDate(a)

HasAtRisk(facility) ==
    \E j \in 1..Len(AccreditationsOf(facility)) : AtRisk(AccreditationsOf(facility)[j])

\* Accreditation j of input facility i is listed in the evaluator's output.
Appears(i, j) ==
    \E k \in 1..Len(expiring_facilities) :
        /\ expiring_facilities[k].facility_id = results[i]["facility_id"]
        /\ \E m \in 1..Len(expiring_facilities[k].expiring_accreditations) :
               expiring_facilities[k].expiring_accreditations[m].accreditation_id
                   = AccreditationsOf(results[i])[j]["accreditation_id"]

Evaluated == pc # "check"

\* Some expiring facility has an entry of priority t.
HasTier(t) ==
    \E k \in 1..Len(expiring_facilities) :
        \E m \in 1..Len(expiring_facilities[k].expiring_accreditations) :
            expiring_facilities[k].expiring_accreditations[m].priority = t

EntriesOfTier(facility, t) ==
    {m \in 1..Len(facility.expiring_accreditations) :
        facility.expiring_accreditations[m].priority = t}

BucketOf(t) ==
    IF t = "Critical" THEN critical_facilities
    ELSE IF t = "High" THEN high_priority_facilities
    ELSE medium_priority_facilities

TopicOf(t) ==
    IF t = "Critical" THEN "critical" ELSE IF t = "High" THEN "high" ELSE "medium"

Occurrences(list, x) == Cardinality({n \in 1..Len(list) : list[n] = x})

----------------------------------------------------------------------------
\* C1: when some accreditation of the batch has a present valid_until that is
\* no YYYY-MM-DD date, the run's outcome differs from the outcome "no expiring
\* accreditations", and every well-formed record with an at-risk
\* accreditation is still reported.
C1_MalformedDateSurfaced ==
    (pc = "done" /\ \E i \in 1..Len(results) :
                        \E j \in 1..Len(AccreditationsOf(results[i])) :
                            Malformed(AccreditationsOf(results[i])[j]))
    => /\ result # [statusCode |-> 200,
                    facilities_processed |-> Len(results),
                    expiring_accreditations_found |-> 0,
                    results |-> Preview(results)]
       /\ \A i \in 1..Len(results) :
              (WellFormedFacility(results[i]) /\ HasAtRisk(results[i]))
              => \E k \in 1..Len(expiring_facilities) :
                     expiring_facilities[k].facility_id = results[i]["facility_id"]

\* C2: after send_notifications ran on a non-empty list, the sink was called
\* exactly once for each tier that has an entry and for no other tier, in the
\* order Critical, High, Medium.
C2_OneCallPerTier ==
    (pc = "done" /\ expiring_facilities # <<>>)
    => [n \in 1..Len(sns_calls) |-> sns_calls[n].topic]
         = SelectSeq(<<"critical", "high", "medium">>,
                     LAMBDA topic : \E t \in {"Critical", "High", "Medium"} :
                                        TopicOf(t) = topic /\ HasTier(t))

\* C3: a failed notification attempt of one tier keeps no other non-empty
\* tier from being attempted, and the batch result is no failure.
C3_TierIsolation ==
    pc = "done"
    => /\ result["statusCode"] = 200
       /\ \A t \in {"Critical", "High", "Medium"} :
              HasTier(t) => \E n \in 1..Len(attempts) : attempts[n].tier = t

\* C4: a facility with one Critical and one Medium expiring accreditation is
\* in a delivered Critical message and in a delivered Medium message, each
\* listing only the entries of its own tier.
C4_BothTiersDelivered ==
    pc = "done"
    => \A k \in 1..Len(expiring_facilities) :
           LET f == expiring_facilities[k]
           IN  (/\ Cardinality(EntriesOfTier(f, "Critical")) = 1
                /\ Cardinality(EntriesOfTier(f, "Medium")) = 1)
               => \A t \in {"Critical", "Medium"} :
                      \E n \in 1..Len(sns_calls) :
                          /\ sns_calls[n].topic = TopicOf(t)
                          /\ \E b \in 1..Len(sns_calls[n].message.blocks) :
                                 LET block == sns_calls[n].message.blocks[b]
                                 IN  /\ block.facility_name = f.facility_name
                                     /\ Len(block.lines)
                                            = Cardinality(EntriesOfTier(f, t))

\* C5: an accreditation is in the evaluator's output iff its valid_until is
\* present and valid_until <= now + 90 days.
C5_AtRiskIff ==
    Evaluated
    => \A i \in 1..Len(results) :
           \A j \in 1..Len(AccreditationsOf(results[i])) :
               Appears(i, j) <=> AtRisk(AccreditationsOf(results[i])[j])

\* C6: every emitted entry has the priority of the first-match rule on its
\* days_to_expiry: Critical up to 30 (zero and negative too), else High up to
\* 60, else Medium; no other priority is emitted.
C6_PriorityRule ==
    \A k \in 1..Len(expiring_facilities) :
        \A m \in 1..Len(expiring_facilities[k].expiring_accreditations) :
            LET e == expiring_facilities[k].expiring_accreditations[m]
            IN  /\ e.priority \in {"Critical", "High", "Medium"}
                /\ e.days_to_expiry <= 30 => e.priority = "Critical"
                /\ (30 < e.days_to_expiry /\ e.days_to_expiry <= 60) => e.priority = "High"
                /\ 60 < e.days_to_expiry => e.priority = "Medium"

\* Entries on both sides of the 30-day bound were emitted for one facility.
C6_Witness ==
    /\ Evaluated
    /\ \E k \in 1..Len(expiring_facilities) :
           LET es == expiring_facilities[k].expiring_accreditations
           IN  /\ Len(es) = 2
               /\ es[1].days_to_expiry = 30 /\ es[1].priority = "Critical"
               /\ es[2].days_to_expiry = 31 /\ es[2].priority = "High"

\* The ids of the at-risk accreditations of a source record, in source order.
AtRiskIds(facility) ==
    LET picked == SelectSeq(AccreditationsOf(facility), AtRisk)
    IN  [j \in 1..Len(picked) |-> picked[j]["accreditation_id"]]

\* C7: for well-formed records the output is the input facilities that have
\* an at-risk accreditation, once each and in input order, each with all and
\* only its at-risk accreditations in source order.
C7_OrderPreservingSelection ==
    (Evaluated /\ \A i \in 1..Len(results) : WellFormedFacility(results[i]))
    => [k \in 1..Len(expiring_facilities) |->
           <<expiring_facilities[k].facility_id,
             [m \in 1..Len(expiring_facilities[k].expiring_accreditations) |->
                 expiring_facilities[k].expiring_accreditations[m].accreditation_id]>>]
         = LET picked == SelectSeq(results, HasAtRisk)
           IN  [k \in 1..Len(picked) |-> <<picked[k]["facility_id"], AtRiskIds(picked[k])>>]

\* Two well-formed records went in; the first has an accreditation that is
\* not at risk, the second has two of which only the later one is at risk,
\* exactly 90 days out; only the second record came out, with that one entry.
C7_Witness ==
    /\ Evaluated
    /\ Len(results) = 2
    /\ \A i \in 1..Len(results) : WellFormedFacility(results[i])
    /\ Len(AccreditationsOf(results[1])) = 1
    /\ HasDate(AccreditationsOf(results[1])[1])
    /\ ~HasAtRisk(results[1])
    /\ Len(AccreditationsOf(results[2])) = 2
    /\ HasDate(AccreditationsOf(results[2])[1])
    /\ Len(expiring_facilities) = 1
    /\ expiring_facilities[1].facility_id = 2
    /\ Len(expiring_facilities[1].expiring_accreditations) = 1
    /\ expiring_facilities[1].expiring_accreditations[1].accreditation_id = 2
    /\ expiring_facilities[1].expiring_accreditations[1].days_to_expiry = WARNING_DAYS

\* C10: after the grouping step a tier's bucket holds an expiring facility
\* once when the facility has an entry of that priority, and not at all
\* otherwise.
C10_BucketHoldsFacilityOnce ==
    pc \in {"Critical", "High", "Medium"}
    => \A t \in {"Critical", "High", "Medium"} :
           \A k \in 1..Len(expiring_facilities) :
               Occurrences(BucketOf(t), expiring_facilities[k])
                   = IF EntriesOfTier(expiring_facilities[k], t) # {} THEN 1 ELSE 0

Listed == "Contents" \in DOMAIN response

FailedToLoad(obj) == obj.Body.kind \in {"fetch_error", "bad_json"}

FailedKeys == {i \in 1..Len(response["Contents"]) : FailedToLoad(response["Contents"][i])}

\* C8, as claimed: with N keys listed, one of which fails to fetch or parse
\* while the others load, the run returns N-1 records.
C8_OneFailureOfN ==
    (pc = "returned" /\ Listed /\ Cardinality(FailedKeys) = 1)
    => Len(processed_facilities) = Len(response["Contents"]) - 1

\* C8, amended: with N keys listed that all end in '.json', one of which
\* fails to fetch or parse while each of the others loads to a non-empty
\* value, the run returns N-1 records; and once the keys are listed the run
\* does not raise.
C8_OneFailureOfNJsonKeys ==
    /\ (pc = "returned" /\ Listed /\ Cardinality(FailedKeys) = 1
        /\ \A i \in 1..Len(response["Contents"]) :
               /\ response["Contents"][i].Key.suffix = ".json"
               /\ i \notin FailedKeys => Truthy(response["Contents"][i].Body.value))
       => /\ Len(processed_facilities) = Len(response["Contents"]) - 1
          /\ results = processed_facilities
    /\ pc \in {"raised", "failed"} => ~Listed

\* Two '.json' keys were listed, the first failed and the second loaded, and
\* the run returned.
C8_Witness ==
    /\ pc = "returned"
    /\ Listed
    /\ Len(response["Contents"]) = 2
    /\ FailedKeys = {1}
    /\ \A i \in 1..2 : response["Contents"][i].Key.suffix = ".json"
    /\ Truthy(response["Contents"][2].Body.value)
    /\ Len(results) = 1

\* C9: when a step of enrich_facility_data fails, the record returned is the
\* record as it was passed in.
C9_FailureReturnsInputUnchanged ==
    (pc = "enriched" /\ log_errors # <<>>) => processed_data = facility_data

====
